---- MODULE Spec2Model ----
(***************************************************************************)
(* The mint queue of mintos: the webhook handler that enqueues mint        *)
(* commands (app/api/createContract/route.ts), the Redis queue operations  *)
(* (app/lib/redis.ts), the history table (lib/supabase, minted_casts) and  *)
(* the worker loop with its pipeline and shutdown handling                 *)
(* (app/workers/mint-worker.ts, scripts/start-worker.ts).                  *)
(*                                                                         *)
(* Every await of the source is a point where the model lets other        *)
(* handlers run: an action is the synchronous code between two awaits.     *)
(***************************************************************************)
EXTENDS Integers, Sequences, FiniteSets, TLC

\* ------------------------------------------------------------------ bounds
\* parent casts (targets) a mint command can name
Targets == {"t1", "t2"}
\* number of mint commands the webhook accepts for checking in one behaviour
MaxCasts == 2
\* slots for invocations of processQueueItem that exist at the same time
MaxInv == 2
\* number of termination signals delivered to the worker process
MaxSignals == 1
\* number of calls to an external service (Redis, Supabase, an HTTP API) that
\* fail in one behaviour; the retries of one fetchWithRetry call count once
MaxFaults == 1

\* number of requests to /api/createSplit in one behaviour
MaxSplitCalls == 2

\* ------------------------------------------------------- program constants
MAX_RETRIES == 3

\* /api/createSplit: the platform wallet and the shares in percent
EDITMINT_WALLET == "0x9e1C8368d6773183e2E0b521e73a49D094D25818"
PLATFORM_SHARE == 45
CASTER_SHARE == 50
MINTER_SHARE == 5

\* ------------------------------------------------------------------- state
VARIABLES
  \* Redis (shared by the web service and the worker)
  mint_queue,         \* list MINT_QUEUE; element 1 is the head (LPUSH side)
  failed_mint_queue,  \* list FAILED_MINT_QUEUE; element 1 is the head
  processed_casts,    \* set 'processed_casts'
  \* Supabase
  minted_casts,       \* rows of table minted_casts (cast_hash is unique)
  \* chain
  tokens,             \* tokens created by /api/createToken: [parentHash, castHash]
  \* web service
  reqs,               \* webhook requests suspended at an await
  nextCast,           \* hash given to the next accepted mint command
  signerUuid,         \* NEYNAR_SIGNER_UUID of the web service: "set" or "missing";
                      \* "unobserved" until the first delivery reads it
  response,           \* the last response POST returned
  observed,           \* whether the specification observes the responses
  \* worker process
  proc,               \* "loading" | "connecting" | "running" | "exited"
  exitCode,           \* code given to process.exit, -1 while alive
  launcher,           \* how the worker was started: "script" (scripts/start-worker.ts)
                      \* or "module" (mint-worker.ts alone); "unobserved" until the
                      \* first signal, the only place where the two differ
  unhandled,          \* what the runtime does with an unhandled rejection: "throw"
                      \* (the process dies) or "warn"; "unobserved" until the first one
  isProcessing,
  isShuttingDown,
  lastProcessedTime,
  queueHealth,
  inv,                \* invocations of processQueueItem, by slot
  timers,             \* pending setTimeout(processQueueItem, RETRY_DELAY)
  shutWaiting,        \* shutdown() calls waiting in the setInterval poll
  shutQuitting,       \* shutdown() calls awaiting redis.quit()
  redisOpen,          \* client.isOpen of the worker's Redis client
  signals,            \* termination signals delivered so far
  clock,              \* value the next new Date() returns
  faults,             \* calls to external services that have failed so far
  \* history (read by the properties only)
  enqueuedLog,        \* items in the order LPUSH put them on mint_queue
  dequeuedLog,        \* items in the order RPOP took them from mint_queue
  thrown,             \* pipeline runs that threw: [data, message, isError]
  rejectedAppends,    \* items whose addToFailedQueue call rejected
  drained,            \* items that were mid-pipeline when a signal arrived
  started,            \* the Redis connection succeeded and the loop was started
  \* getHealthStatus
  health,             \* the invocation of getHealthStatus and what it returned
  \* /api/createSplit and the chain
  splits,             \* split configurations deployed on the chain
  deployTxs,          \* configurations of the deployment transactions sent, in order
  splitCalls,         \* requests to /api/createSplit, by slot
  \* lib/webhook.ts
  verifyCall,         \* a call of verifyWebhookSignature and its outcome
  \* lib/redis.ts
  connection,         \* the RedisConnection singleton and its client
  callers             \* calls of getRedisClient, by caller

stores == <<mint_queue, failed_mint_queue, processed_casts, minted_casts, tokens>>
web == <<reqs, nextCast, signerUuid, response, observed>>
flags == <<isProcessing, isShuttingDown, lastProcessedTime, queueHealth>>
life == <<proc, exitCode, launcher, unhandled, redisOpen, signals, started>>
loop == <<inv, timers, shutWaiting, shutQuitting>>
history == <<enqueuedLog, dequeuedLog, thrown, rejectedAppends, drained>>
splitting == <<splits, deployTxs, splitCalls>>
library == <<verifyCall, connection, callers>>
vars ==
  <<stores, web, flags, life, loop, history, clock, faults, health, splitting, library>>

\* ------------------------------------------------------------------- items
\* QueuedCast: the fields of the item the worker reads
QueuedCast == [castHash : 1..MaxCasts, parentHash : Targets, hasEth : BOOLEAN]

\* the null dequeueCast returns on an empty list
NoItem == [castHash |-> 0, parentHash |-> "none", hasEth |-> FALSE]

\* the X-Neynar-Signature header of a delivery, relative to the body that
\* arrives with it: no header, the HMAC of timestamp + '.' + body under the
\* shared secret, or the HMAC of the body as it was before it was altered
Signatures == {"absent", "hmacOfBody", "hmacOfOriginalBody"}

\* a request header: absent (null), or present with its text, a string
\* written as the sequence of its characters
Header(text) == [present |-> TRUE, text |-> text]

NoHeader == [present |-> FALSE, text |-> <<>>]

\* a call that returned a value, and a call that threw
Returns(v) == [threw |-> "", value |-> v]

Throws(name) == [threw |-> name, value |-> FALSE]

\* length of a hex digest in the model (64 for SHA-256)
DigestLen == 2

\* the hex digits digests are written with in the model
HexDigits == <<"0", "f">>

Code(c) ==
  CASE c = "1" -> 1 [] c = "2" -> 2 [] c = "." -> 3 [] c = "p" -> 5 [] c = "q" -> 6
    [] c = "k1" -> 7 [] c = "k2" -> 12 [] OTHER -> 0

RECURSIVE SumCodes(_)
SumCodes(text) ==
  IF text = <<>> THEN 0 ELSE Code(text[1]) * Len(text) + SumCodes(Tail(text))

\* crypto.createHmac('sha256', secret).update(message).digest('hex'): a keyed
\* digest of fixed length, written in hex
hmacSha256Hex(secret, message) ==
  [k \in 1..DigestLen |->
     HexDigits[(((Code(secret) + SumCodes(message)) \div k) % 2) + 1]]

\* crypto.timingSafeEqual on the bytes of two strings: throws a RangeError
\* when the byte lengths differ
timingSafeEqual(a, b) ==
  IF Len(a) # Len(b) THEN Throws("RangeError") ELSE Returns(a = b)

\* verifyWebhookSignature: false when a header is null or empty, else the
\* comparison of the signature with the HMAC of timestamp + '.' + payload
verifyWebhookSignature(payload, signature, timestamp, secret) ==
  IF \/ ~signature.present \/ signature.text = <<>>
     \/ ~timestamp.present \/ timestamp.text = <<>>
  THEN Returns(FALSE)
  ELSE timingSafeEqual(signature.text,
                       hmacSha256Hex(secret, timestamp.text \o <<".">> \o payload))

\* the header text a signature class of a delivery stands for: the delivery
\* carries body "p" at time "1", its original body was "q"
SignatureHeader(signature) ==
  CASE signature = "absent" -> NoHeader
    [] signature = "hmacOfBody" -> Header(hmacSha256Hex("k1", <<"1", ".", "p">>))
    [] signature = "hmacOfOriginalBody" -> Header(hmacSha256Hex("k1", <<"1", ".", "q">>))

\* a webhook delivery: the fields of the body the handler branches on, and
\* the signature header
Payloads ==
  [type : {"cast.created", "other"},
   parent_hash : Targets \cup {"none"},
   isMintCommand : BOOLEAN,
   scoreOk : BOOLEAN,
   hasParentAuthor : BOOLEAN,
   hasEth : BOOLEAN,
   signature : Signatures]

Reverse(s) == [k \in 1..Len(s) |-> s[Len(s) + 1 - k]]

Range(s) == {s[k] : k \in 1..Len(s)}

\* the values a setting of the environment can show when it is first used;
\* once used it stays what it was
Observed(setting, values) == IF setting = "unobserved" THEN values ELSE {setting}

\* a call to an external service fails, within the bound on failures
Fault ==
  /\ faults < MaxFaults
  /\ faults' = faults + 1

\* --------------------------------------------------------- Redis operations
\* LPUSH: insert at the head, returns the new list
lPush(list, value) == <<value>> \o list

\* enqueueCast with RPUSH in place of LPUSH: the item goes to the tail
enqueueCastAtTail(list, data) == list \o <<data>>

\* enqueueCast: LPUSH onto MINT_QUEUE
enqueueCast(list, data) == lPush(list, data)

\* RPOP: the element at the tail, NoItem on an empty list
rPopValue(list) == IF list = <<>> THEN NoItem ELSE list[Len(list)]

rPopRest(list) == IF list = <<>> THEN <<>> ELSE SubSeq(list, 1, Len(list) - 1)

\* isCastProcessed: SISMEMBER processed_casts
isCastProcessed(castHash) == castHash \in processed_casts

\* getMintingDetails: the row of minted_casts with this cast_hash, if any
getMintingDetails(castHash) == {row \in minted_casts : row.cast_hash = castHash}

\* ------------------------------------------------------------ web service
\* POST up to its first await: the checks on the payload (route.ts 187-239)
acceptsForCheck(p) ==
  /\ p.type = "cast.created"
  /\ p.parent_hash # "none"
  /\ p.isMintCommand
  /\ p.scoreOk
  /\ p.hasParentAuthor

queueData(p) ==
  [castHash |-> nextCast, parentHash |-> p.parent_hash, hasEth |-> p.hasEth]

\* what POST returns: the HTTP status and the JSON body
Response(status, body) == [status |-> status, body |-> body]

\* no response has been returned yet
NoResponse == Response(0, [none |-> TRUE])

\* POST returns r. A response is an output of the web service, not part of
\* its state: it is kept only under the specification that observes responses
Respond(r) == response' = IF observed THEN r ELSE response

\* the response of a delivery that returns before the first store call
earlyResponse(p) ==
  IF p.type = "unparsable"
  THEN Response(500, [error |-> "Error processing webhook"])
  ELSE IF p.type # "cast.created"
  THEN Response(200, [success |-> TRUE])
  ELSE IF p.parent_hash = "none"
  THEN Response(200, [success |-> TRUE, message |-> "Not a reply"])
  ELSE IF ~p.isMintCommand
  THEN Response(200, [success |-> TRUE, message |-> "Not a mint command"])
  ELSE IF ~p.scoreOk
  THEN Response(200, [success |-> TRUE, message |-> "User score too low"])
  ELSE Response(400, [error |-> "Parent cast data not found"])

\* a webhook delivery: the check of NEYNAR_SIGNER_UUID, then the body is
\* parsed; a payload that passes the checks suspends at
\* await isCastProcessed(parentHash), any other returns without touching Redis
WebhookReceive ==
  \E p \in Payloads, uuid \in Observed(signerUuid, {"set", "missing"}) :
    /\ nextCast <= MaxCasts
    /\ signerUuid' = uuid
    /\ IF uuid = "missing"
       THEN /\ Respond(Response(500, [error |-> "Server configuration error"]))
            /\ UNCHANGED <<reqs, nextCast>>
       ELSE IF acceptsForCheck(p)
       THEN /\ reqs' = reqs \cup {[data |-> queueData(p), pc |-> "isCastProcessed",
                                   signature |-> p.signature]}
            /\ nextCast' = nextCast + 1
            /\ UNCHANGED response
       ELSE /\ Respond(earlyResponse(p))
            /\ UNCHANGED <<reqs, nextCast>>
    /\ UNCHANGED <<health, splitting, library, stores, observed, flags, life, loop, history, clock, faults>>

\* await isCastProcessed(parentHash) returns
WebhookCheckProcessed ==
  \E r \in reqs :
    /\ r.pc = "isCastProcessed"
    /\ IF isCastProcessed(r.data.parentHash)
       THEN /\ reqs' = reqs \ {r}
            /\ Respond(Response(200, [success |-> TRUE,
                                      message |-> "Cast already processed"]))
       ELSE /\ reqs' = (reqs \ {r}) \cup {[r EXCEPT !.pc = "getMintingDetails"]}
            /\ UNCHANGED response
    /\ UNCHANGED <<health, splitting, library, stores, nextCast, signerUuid, observed, flags, life, loop,
                   history, clock, faults>>

\* await getMintingDetails(parentHash) returns
WebhookCheckMinted ==
  \E r \in reqs :
    /\ r.pc = "getMintingDetails"
    /\ IF getMintingDetails(r.data.parentHash) # {}
       THEN /\ reqs' = reqs \ {r}
            /\ Respond(Response(200, [success |-> TRUE,
                                      message |-> "Returned existing mint",
                                      minter |-> "minter_username"]))
       ELSE /\ reqs' = (reqs \ {r}) \cup {[r EXCEPT !.pc = "enqueueCast"]}
            /\ UNCHANGED response
    /\ UNCHANGED <<health, splitting, library, stores, nextCast, signerUuid, observed, flags, life, loop,
                   history, clock, faults>>

\* await enqueueCast(queueData) returns
WebhookEnqueue ==
  \E r \in reqs :
    /\ r.pc = "enqueueCast"
    /\ mint_queue' = enqueueCast(mint_queue, r.data)
    /\ enqueuedLog' = Append(enqueuedLog, r.data)
    /\ reqs' = reqs \ {r}
    /\ Respond(Response(200, [success |-> TRUE,
                              message |-> "Cast queued for minting"]))
    /\ UNCHANGED <<health, splitting, library, failed_mint_queue, processed_casts, minted_casts, tokens,
                   nextCast, signerUuid, observed, flags, life, loop, clock, faults,
                   dequeuedLog, thrown, rejectedAppends, drained>>

\* one of the three awaited store calls rejects: the inner catch answers 500
WebhookStoreError ==
  \E r \in reqs :
    /\ reqs' = reqs \ {r}
    /\ Respond(Response(500, [error |-> "Failed to process mint command"]))
    /\ Fault
    /\ UNCHANGED <<health, splitting, library, stores, nextCast, signerUuid, observed, flags, life, loop,
                   history, clock>>

\* ---------------------------------------------------------------- worker
\* the steps of the pipeline that await fetchWithRetry, in program order
FetchSteps ==
  {"fetchParentCast", "fetchUser", "createImage", "uploadMetadata",
   "createSplit", "createToken"}

\* pcs at which processQueueItem is inside its try/catch (isProcessing is set)
PipelinePcs ==
  FetchSteps \cup {"storeMintedNFT", "markCastAsProcessed", "publishCast",
                   "addToFailedQueue"}

\* pcs at which processQueueItem awaits dequeueCast
DequeuePcs == {"dequeueCast", "dequeued"}

\* the try block with the token created before the split contract
NextStepTokenBeforeSplit(pc) ==
  CASE pc = "fetchParentCast" -> "fetchUser"
    [] pc = "fetchUser" -> "createImage"
    [] pc = "createImage" -> "uploadMetadata"
    [] pc = "uploadMetadata" -> "createToken"
    [] pc = "createToken" -> "createSplit"
    [] pc = "createSplit" -> "storeMintedNFT"
    [] pc = "storeMintedNFT" -> "markCastAsProcessed"
    [] pc = "markCastAsProcessed" -> "publishCast"
    [] OTHER -> "done"

\* the try block with the target marked processed before the record is stored
NextStepStoreAfterMark(pc) ==
  CASE pc = "fetchParentCast" -> "fetchUser"
    [] pc = "fetchUser" -> "createImage"
    [] pc = "createImage" -> "uploadMetadata"
    [] pc = "uploadMetadata" -> "createSplit"
    [] pc = "createSplit" -> "createToken"
    [] pc = "createToken" -> "markCastAsProcessed"
    [] pc = "markCastAsProcessed" -> "storeMintedNFT"
    [] pc = "storeMintedNFT" -> "publishCast"
    [] OTHER -> "done"

\* the await that follows the await at pc in the try block
NextStep(pc) ==
  CASE pc = "fetchParentCast" -> "fetchUser"
    [] pc = "fetchUser" -> "createImage"
    [] pc = "createImage" -> "uploadMetadata"
    [] pc = "uploadMetadata" -> "createSplit"
    [] pc = "createSplit" -> "createToken"
    [] pc = "createToken" -> "storeMintedNFT"
    [] pc = "storeMintedNFT" -> "markCastAsProcessed"
    [] pc = "markCastAsProcessed" -> "publishCast"
    [] OTHER -> "done"

\* the message of the Error a step throws
ErrorMessage(step) ==
  CASE step = "validate" -> "Minter has no verified ETH address"
    [] step = "fetchParentCast" -> "Failed to fetch parent cast"
    [] step = "fetchUser" -> "Failed to fetch parent author details"
    [] step = "createImage" -> "Failed to create image"
    [] step = "uploadMetadata" -> "Failed to upload metadata to IPFS"
    [] step = "createSplit" -> "Failed to create split contract"
    [] step = "createToken" -> "Failed to create token"
    [] step = "storeMintedNFT" -> "insert into minted_casts failed"
    [] step = "markCastAsProcessed" -> "SADD processed_casts failed"
    [] OTHER -> "publishCast failed"

FreeSlot ==
  [pc |-> "free", data |-> NoItem, retries |-> 0, chained |-> FALSE,
   error |-> "", failedAt |-> 0]

Slots == 1..MaxInv

FreeSlots == {i \in Slots : inv[i].pc = "free"}

\* setTimeout(processQueueItem, RETRY_DELAY): one more pending timer
setTimeoutTwice(t) == t + 2

setTimeout(t) == t + 1

\* process.exit(0) whatever the code asked for
ExitWithZero(code) ==
  /\ proc' = "exited"
  /\ exitCode' = 0

\* process.exit(code)
Exit(code) ==
  /\ proc' = "exited"
  /\ exitCode' = code

\* a rejection of the promise processQueueItem returned: the first invocation
\* is chained to initializeWorker's .catch, the later ones are run by timers
\* and nothing handles their rejection
Rejected(chained, message) ==
  IF chained
  THEN /\ queueHealth' = [queueHealth EXCEPT !.status = "connection_failed",
                                             !.errors = Append(@, message)]
       /\ Exit(1)
       /\ UNCHANGED unhandled
  ELSE /\ UNCHANGED queueHealth
       /\ \E u \in Observed(unhandled, {"throw", "warn"}) :
            /\ unhandled' = u
            /\ IF u = "throw" THEN Exit(1) ELSE UNCHANGED <<proc, exitCode>>

\* module evaluation: the check of requiredEnvVars, then initializeWorker
\* calls getRedisClient()
Load ==
  /\ proc = "loading"
  /\ \E envOk \in BOOLEAN :
       IF envOk
       THEN /\ proc' = "connecting"
            /\ UNCHANGED <<exitCode, queueHealth>>
       ELSE /\ queueHealth' =
                 [queueHealth EXCEPT !.status = "error",
                    !.errors = Append(@, "environment variable is required")]
            /\ Exit(1)
  /\ UNCHANGED <<health, splitting, library, stores, web, isProcessing, isShuttingDown, lastProcessedTime,
                 launcher, unhandled, redisOpen, signals, started,
                 loop, history, clock, faults>>

\* processQueueItem up to its first await, run in slot i; t is the number of
\* timers pending when it is entered
processQueueItemStart(i, chained, t) ==
  IF isShuttingDown
  THEN /\ inv' = [inv EXCEPT ![i] = FreeSlot]
       /\ timers' = t
  ELSE IF isProcessing
  THEN /\ inv' = [inv EXCEPT ![i] = FreeSlot]
       /\ timers' = setTimeout(t)
  ELSE /\ inv' = [inv EXCEPT ![i] = [FreeSlot EXCEPT !.pc = "dequeueCast",
                                                     !.chained = chained]]
       /\ timers' = t

\* getRedisClient() resolves: initializeWorker's .then runs processQueueItem
ConnectOk ==
  /\ proc = "connecting"
  /\ proc' = "running"
  /\ started' = TRUE
  /\ redisOpen' = TRUE
  /\ queueHealth' = [queueHealth EXCEPT !.status = "connected"]
  /\ processQueueItemStart(1, TRUE, timers)
  /\ UNCHANGED <<health, splitting, library, stores, web, isProcessing, isShuttingDown, lastProcessedTime,
                 exitCode, launcher, unhandled, signals,
                 shutWaiting, shutQuitting, history, clock, faults>>

\* getRedisClient() rejects: initializeWorker's .catch
ConnectFail ==
  /\ proc = "connecting"
  /\ queueHealth' = [queueHealth EXCEPT !.status = "connection_failed",
                                        !.errors = Append(@, "connect failed")]
  /\ Exit(1)
  /\ UNCHANGED <<health, splitting, library, stores, web, isProcessing, isShuttingDown, lastProcessedTime,
                 launcher, unhandled, redisOpen, signals, started,
                 loop, history, clock, faults>>

\* a timer set by setTimeout(processQueueItem, RETRY_DELAY) fires
TimerFire ==
  /\ proc = "running"
  /\ timers > 0
  /\ FreeSlots # {}
  /\ LET i == CHOOSE k \in FreeSlots : \A j \in FreeSlots : k <= j
     IN processQueueItemStart(i, FALSE, timers - 1)
  /\ UNCHANGED <<health, splitting, library, stores, web, flags, life, shutWaiting, shutQuitting,
                 history, clock, faults>>

\* a finally block that schedules two polls
FinallySchedulingTwice(i) ==
  /\ isProcessing' = FALSE
  /\ timers' = setTimeout(setTimeout(timers))
  /\ inv' = [inv EXCEPT ![i] = FreeSlot]

\* the finally block: clear the flag, schedule the next poll, leave
Finally(i) ==
  /\ isProcessing' = FALSE
  /\ timers' = setTimeout(timers)
  /\ inv' = [inv EXCEPT ![i] = FreeSlot]

\* a throw inside the try block (isProcessing was set by its first
\* statement), then the catch block up to its await: a thrown value that is
\* an Error is handed to addToFailedQueue, any other value only reaches the
\* health state
Catch(i, step, message, isError) ==
  /\ queueHealth' =
       [queueHealth EXCEPT !.status = "error",
          !.errors = Append(@, IF isError THEN message ELSE "[object Object]")]
  /\ thrown' = thrown \cup {[data |-> inv[i].data, message |-> message, isError |-> isError]}
  /\ IF isError
     THEN /\ inv' = [inv EXCEPT ![i] = [@ EXCEPT !.pc = "addToFailedQueue",
                                                 !.error = message,
                                                 !.failedAt = clock]]
          /\ clock' = clock + 1
          /\ isProcessing' = TRUE
          /\ UNCHANGED timers
     ELSE /\ Finally(i)
          /\ UNCHANGED clock

\* Redis executes the RPOP that dequeueCast sent
RedisRpop(i) ==
  /\ proc = "running"
  /\ inv[i].pc = "dequeueCast"
  /\ inv' = [inv EXCEPT ![i] = [@ EXCEPT !.pc = "dequeued",
                                         !.data = rPopValue(mint_queue)]]
  /\ mint_queue' = rPopRest(mint_queue)
  /\ dequeuedLog' = IF mint_queue = <<>> THEN dequeuedLog
                    ELSE Append(dequeuedLog, rPopValue(mint_queue))
  /\ UNCHANGED <<health, splitting, library, failed_mint_queue, processed_casts, minted_casts, tokens,
                 web, flags, life, timers, shutWaiting, shutQuitting, clock, faults,
                 enqueuedLog, thrown, rejectedAppends, drained>>

\* await dequeueCast() rejects (a store error): the statement is outside the
\* try block, so processQueueItem rejects without scheduling a successor
DequeueThrow(i) ==
  /\ proc = "running"
  /\ inv[i].pc = "dequeueCast"
  /\ inv' = [inv EXCEPT ![i] = FreeSlot]
  /\ Rejected(inv[i].chained, "rPop failed")
  /\ Fault
  /\ UNCHANGED <<health, splitting, library, stores, web, isProcessing, isShuttingDown, lastProcessedTime,
                 launcher, redisOpen, signals, started,
                 timers, shutWaiting, shutQuitting, history, clock>>

\* the validation skipped: every requester counts as having an address
everyAuthorHasEthAddress(data) == TRUE

\* data.author.verified_addresses?.eth_addresses?.[0] is set
hasVerifiedEthAddress(data) == data.hasEth

\* await dequeueCast() returns: the empty-queue branch, or the start of the
\* try block up to its first await
DequeueResume(i) ==
  /\ proc = "running"
  /\ inv[i].pc = "dequeued"
  /\ IF inv[i].data = NoItem
     THEN /\ queueHealth' = [queueHealth EXCEPT !.status = "idle",
                                                !.currentQueueSize = 0]
          /\ timers' = setTimeout(timers)
          /\ inv' = [inv EXCEPT ![i] = FreeSlot]
          /\ UNCHANGED <<isProcessing, thrown, clock>>
     ELSE IF ~hasVerifiedEthAddress(inv[i].data)
     THEN Catch(i, "validate", ErrorMessage("validate"), TRUE)
     ELSE /\ isProcessing' = TRUE
          /\ queueHealth' = [queueHealth EXCEPT !.status = "processing"]
          /\ inv' = [inv EXCEPT ![i] = [@ EXCEPT !.pc = "fetchParentCast",
                                                 !.retries = MAX_RETRIES]]
          /\ UNCHANGED <<timers, thrown, clock>>
  /\ UNCHANGED <<health, splitting, library, stores, web, isShuttingDown, lastProcessedTime, life,
                 shutWaiting, shutQuitting, faults,
                 enqueuedLog, dequeuedLog, rejectedAppends, drained>>

\* the catch block of fetchWithRetry retrying whatever is left and thrown
retryWithoutBound(retries, name) == TRUE

\* the catch block of fetchWithRetry: retries > 0 && error instanceof Error
\* && error.name !== 'AbortError'
shouldRetry(retries, name) == retries > 0 /\ name # "AbortError"

\* the response of a fetchWithRetry call arrives with response.ok and a
\* usable body: the code up to the next await
FetchOk(i) ==
  /\ proc = "running"
  /\ inv[i].pc \in FetchSteps
  /\ inv' = [inv EXCEPT ![i] = [@ EXCEPT !.pc = NextStep(inv[i].pc),
                                         !.retries = MAX_RETRIES]]
  /\ tokens' = IF inv[i].pc = "createToken"
               THEN tokens \cup {[parentHash |-> inv[i].data.parentHash,
                                  castHash |-> inv[i].data.castHash]}
               ELSE tokens
  /\ UNCHANGED <<health, splitting, library, mint_queue, failed_mint_queue, processed_casts, minted_casts,
                 web, flags, life, timers, shutWaiting, shutQuitting,
                 history, clock, faults>>

\* the response arrives but is not ok, or lacks what the step needs (no
\* parent cast, no verified address): the step throws an Error
FetchRejectedResponse(i) ==
  /\ proc = "running"
  /\ inv[i].pc \in FetchSteps
  /\ Catch(i, inv[i].pc, ErrorMessage(inv[i].pc), TRUE)
  /\ Fault
  /\ UNCHANGED <<health, splitting, library, stores, web, isShuttingDown, lastProcessedTime, life,
                 shutWaiting, shutQuitting,
                 enqueuedLog, dequeuedLog, rejectedAppends, drained>>

\* fetch rejects with an Error that is not an AbortError: fetchWithRetry
\* sleeps and calls itself while retries are left, then rethrows
FetchTransportError(i) ==
  /\ proc = "running"
  /\ inv[i].pc \in FetchSteps
  /\ IF shouldRetry(inv[i].retries, "TypeError")
     THEN /\ inv' = [inv EXCEPT ![i] = [@ EXCEPT !.retries = @ - 1]]
          /\ UNCHANGED <<isProcessing, queueHealth, timers, thrown, clock>>
     ELSE Catch(i, inv[i].pc, "fetch failed", TRUE)
  /\ IF inv[i].retries = MAX_RETRIES THEN Fault ELSE UNCHANGED faults
  /\ UNCHANGED <<health, splitting, library, stores, web, isShuttingDown, lastProcessedTime, life,
                 shutWaiting, shutQuitting,
                 enqueuedLog, dequeuedLog, rejectedAppends, drained>>

\* the API_TIMEOUT timer aborts the fetch: an AbortError is rethrown at once
FetchAbort(i) ==
  /\ proc = "running"
  /\ inv[i].pc \in FetchSteps
  /\ IF shouldRetry(inv[i].retries, "AbortError")
     THEN /\ inv' = [inv EXCEPT ![i] = [@ EXCEPT !.retries = @ - 1]]
          /\ UNCHANGED <<isProcessing, queueHealth, timers, thrown, clock>>
     ELSE Catch(i, inv[i].pc, "This operation was aborted", TRUE)
  /\ Fault
  /\ UNCHANGED <<health, splitting, library, stores, web, isShuttingDown, lastProcessedTime, life,
                 shutWaiting, shutQuitting,
                 enqueuedLog, dequeuedLog, rejectedAppends, drained>>

\* await storeMintedNFT(...) returns: the insert went through, which the
\* unique constraint on cast_hash allows for one row per parent cast
StoreOk(i) ==
  /\ proc = "running"
  /\ inv[i].pc = "storeMintedNFT"
  /\ getMintingDetails(inv[i].data.parentHash) = {}
  /\ minted_casts' = minted_casts \cup
       {[cast_hash |-> inv[i].data.parentHash, mint_hash |-> inv[i].data.castHash]}
  /\ inv' = [inv EXCEPT ![i] = [@ EXCEPT !.pc = NextStep(inv[i].pc)]]
  /\ UNCHANGED <<health, splitting, library, mint_queue, failed_mint_queue, processed_casts, tokens,
                 web, flags, life, timers, shutWaiting, shutQuitting,
                 history, clock, faults>>

\* storeMintedNFT throws the error object the Supabase client returned (a
\* duplicate cast_hash, or the store being unreachable); whether that object
\* is an instance of Error depends on the client library
StoreThrow(i) ==
  /\ proc = "running"
  /\ inv[i].pc = "storeMintedNFT"
  /\ \E isError \in BOOLEAN : Catch(i, inv[i].pc, ErrorMessage(inv[i].pc), isError)
  /\ IF getMintingDetails(inv[i].data.parentHash) # {}
     THEN UNCHANGED faults
     ELSE Fault
  /\ UNCHANGED <<health, splitting, library, stores, web, isShuttingDown, lastProcessedTime, life,
                 shutWaiting, shutQuitting,
                 enqueuedLog, dequeuedLog, rejectedAppends, drained>>

\* await markCastAsProcessed(parentHash) returns
MarkOk(i) ==
  /\ proc = "running"
  /\ inv[i].pc = "markCastAsProcessed"
  /\ processed_casts' = processed_casts \cup {inv[i].data.parentHash}
  /\ inv' = [inv EXCEPT ![i] = [@ EXCEPT !.pc = NextStep(inv[i].pc)]]
  /\ UNCHANGED <<health, splitting, library, mint_queue, failed_mint_queue, minted_casts, tokens,
                 web, flags, life, timers, shutWaiting, shutQuitting,
                 history, clock, faults>>

\* markCastAsProcessed rejects (a store error)
MarkThrow(i) ==
  /\ proc = "running"
  /\ inv[i].pc = "markCastAsProcessed"
  /\ Catch(i, inv[i].pc, ErrorMessage(inv[i].pc), TRUE)
  /\ Fault
  /\ UNCHANGED <<health, splitting, library, stores, web, isShuttingDown, lastProcessedTime, life,
                 shutWaiting, shutQuitting,
                 enqueuedLog, dequeuedLog, rejectedAppends, drained>>

\* await neynarClient.publishCast(...) returns: the health update, finally
PublishOk(i) ==
  /\ proc = "running"
  /\ inv[i].pc = "publishCast"
  /\ lastProcessedTime' = clock
  /\ clock' = clock + 1
  /\ queueHealth' = [queueHealth EXCEPT !.lastProcessed = clock,
                                        !.status = "success"]
  /\ Finally(i)
  /\ UNCHANGED <<health, splitting, library, stores, web, isShuttingDown, life, shutWaiting, shutQuitting,
                 history, faults>>

\* publishCast rejects: the call is inside the try block with no catch of
\* its own
PublishThrow(i) ==
  /\ proc = "running"
  /\ inv[i].pc = "publishCast"
  /\ Catch(i, inv[i].pc, ErrorMessage(inv[i].pc), TRUE)
  /\ Fault
  /\ UNCHANGED <<health, splitting, library, stores, web, isShuttingDown, lastProcessedTime, life,
                 shutWaiting, shutQuitting,
                 enqueuedLog, dequeuedLog, rejectedAppends, drained>>

\* addToFailedQueue: the entry LPUSHed onto FAILED_MINT_QUEUE
FailedMint(data, error, failedAt) ==
  [data |-> data, error |-> error, failedAt |-> failedAt]

\* addToFailedQueue storing the entry with SET: it replaces what was there
addToFailedQueueOverwriting(list, data, error, failedAt) ==
  <<FailedMint(data, error, failedAt)>>

\* addToFailedQueue: LPUSH of the entry, returns the new list
addToFailedQueue(list, data, error, failedAt) ==
  lPush(list, FailedMint(data, error, failedAt))

\* await addToFailedQueue(data, error.message) returns: the count, finally
AddToFailedOk(i) ==
  /\ proc = "running"
  /\ inv[i].pc = "addToFailedQueue"
  /\ failed_mint_queue' =
       addToFailedQueue(failed_mint_queue, inv[i].data, inv[i].error, inv[i].failedAt)
  /\ queueHealth' = [queueHealth EXCEPT !.failedMintsCount = @ + 1]
  /\ Finally(i)
  /\ UNCHANGED <<health, splitting, library, mint_queue, processed_casts, minted_casts, tokens, web,
                 isShuttingDown, lastProcessedTime, life,
                 shutWaiting, shutQuitting, history, clock, faults>>

\* addToFailedQueue rejects inside the catch block: finally runs and the
\* rejection leaves processQueueItem
AddToFailedThrow(i) ==
  /\ proc = "running"
  /\ inv[i].pc = "addToFailedQueue"
  /\ rejectedAppends' = rejectedAppends \cup {inv[i].data}
  /\ Finally(i)
  /\ Rejected(inv[i].chained, "lPush failed")
  /\ Fault
  /\ UNCHANGED <<health, splitting, library, stores, web, isShuttingDown, lastProcessedTime,
                 launcher, redisOpen, signals, started,
                 shutWaiting, shutQuitting,
                 enqueuedLog, dequeuedLog, thrown, drained, clock>>

\* --------------------------------------------------------------- shutdown
\* the items whose pipeline is between its first statement and its finally
MidPipeline == {inv[i].data : i \in {k \in Slots : inv[k].pc \in PipelinePcs}}

\* SIGTERM or SIGINT. The handlers run in the order they were registered:
\* shutdown() of mint-worker.ts up to its first await, then, when the worker
\* was started by scripts/start-worker.ts, that script's handler, which
\* calls process.exit(0)
Signal ==
  /\ proc \in {"connecting", "running"}
  /\ signals < MaxSignals
  /\ signals' = signals + 1
  /\ isShuttingDown' = TRUE
  /\ queueHealth' = [queueHealth EXCEPT !.status = "shutting_down"]
  /\ IF isProcessing
     THEN /\ shutWaiting' = shutWaiting + 1
          /\ UNCHANGED shutQuitting
     ELSE /\ shutQuitting' = shutQuitting + 1
          /\ UNCHANGED shutWaiting
  /\ drained' = drained \cup MidPipeline
  /\ \E l \in Observed(launcher, {"script", "module"}) :
       /\ launcher' = l
       /\ IF l = "script" THEN Exit(0) ELSE UNCHANGED <<proc, exitCode>>
  /\ UNCHANGED <<health, splitting, library, stores, web, isProcessing, lastProcessedTime,
                 unhandled, redisOpen, started,
                 inv, timers, clock, faults,
                 enqueuedLog, dequeuedLog, thrown, rejectedAppends>>

\* the setInterval callback of shutdown() finds isProcessing false: the
\* promise resolves and shutdown() goes on to await redis.quit()
ShutdownPoll ==
  /\ proc = "running"
  /\ shutWaiting > 0
  /\ ~isProcessing
  /\ shutWaiting' = shutWaiting - 1
  /\ shutQuitting' = shutQuitting + 1
  /\ UNCHANGED <<health, splitting, library, stores, web, flags, life, inv, timers, history, clock, faults>>

\* await redis.quit() returns: the connection is closed, process.exit(0)
ShutdownQuit ==
  /\ proc \in {"connecting", "running"}
  /\ shutQuitting > 0
  /\ redisOpen' = FALSE
  /\ queueHealth' = [queueHealth EXCEPT !.status = "shutdown"]
  /\ Exit(0)
  /\ UNCHANGED <<health, splitting, library, stores, web, isProcessing, isShuttingDown, lastProcessedTime,
                 launcher, unhandled, signals, started,
                 loop, history, clock, faults>>

\* ---------------------------------------------------------- getHealthStatus
\* peekQueue: LRANGE MINT_QUEUE 0 0, the element at the head or null
peekQueue(list) == IF list = <<>> THEN NoItem ELSE list[1]

\* getFailedMints: LRANGE FAILED_MINT_QUEUE 0 -1
getFailedMints(list) == list

\* no invocation of getHealthStatus is running and none has returned
NoHealthCall ==
  [pc |-> "idle", nextItem |-> NoItem, returned |-> FALSE,
   value |-> [status |-> "starting", lastProcessed |-> 0, currentQueueSize |-> 0,
              failedMintsCount |-> 0, errors |-> <<>>],
   error |-> ""]

\* the catch block returning a fresh health object in place of the state
returnFreshOnError(qh, message) ==
  [NoHealthCall EXCEPT !.returned = TRUE, !.error = message]

\* the catch block: { ...queueHealth, error: error.message }
returnOnError(qh, message) ==
  [NoHealthCall EXCEPT !.returned = TRUE, !.value = qh, !.error = message]

\* getHealthStatus is called: it runs up to await peekQueue()
getHealthStatusCall ==
  /\ health.pc = "idle"
  /\ health' = [health EXCEPT !.pc = "peekQueue"]
  /\ UNCHANGED <<stores, web, flags, life, loop, history, clock, faults, splitting, library>>

\* await peekQueue() returns; getHealthStatus goes on to await getFailedMints()
HealthPeekOk ==
  /\ health.pc = "peekQueue"
  /\ health' = [health EXCEPT !.pc = "getFailedMints",
                              !.nextItem = peekQueue(mint_queue)]
  /\ UNCHANGED <<stores, web, flags, life, loop, history, clock, faults, splitting, library>>

\* await getFailedMints() returns: the three assignments, return queueHealth
HealthFailedMintsOk ==
  /\ health.pc = "getFailedMints"
  /\ queueHealth' =
       [queueHealth EXCEPT
          !.currentQueueSize = IF health.nextItem # NoItem THEN 1 ELSE 0,
          !.failedMintsCount = Len(getFailedMints(failed_mint_queue)),
          !.lastProcessed = lastProcessedTime]
  /\ health' = [NoHealthCall EXCEPT !.returned = TRUE, !.value = queueHealth']
  /\ UNCHANGED <<stores, web, isProcessing, isShuttingDown, lastProcessedTime,
                 life, loop, history, clock, faults, splitting, library>>

\* one of the two reads rejects (a store error): the catch block
HealthReadThrow ==
  /\ health.pc \in {"peekQueue", "getFailedMints"}
  /\ health' = returnOnError(queueHealth, "read failed")
  /\ Fault
  /\ UNCHANGED <<stores, web, flags, life, loop, history, clock, splitting, library>>

\* ---------------------------------------------------------- /api/createSplit
\* the wallet values a request can carry: "" is a missing field, "xyz" is not
\* an address, the others differ in case and surrounding blanks
RawWallets == {"", "xyz", "0xAA", "0xaa", " 0xbb "}

\* address.trim().toLowerCase()
trimToLowerCase(address) ==
  CASE address = "0xAA" -> "0xaa"
    [] address = " 0xbb " -> "0xbb"
    [] OTHER -> address

\* /^0x[0-9a-f]{40}$/.test(trimmedAddress)
isAddressFormat(trimmedAddress) == trimmedAddress \in {"0xaa", "0xbb", "0x9e1c8368d6773183e2e0b521e73a49d094d25818"}

\* validateAndConvertAddress: the normalized address, "invalid" for a throw
validateAndConvertAddress(address) ==
  IF isAddressFormat(trimToLowerCase(address))
  THEN trimToLowerCase(address)
  ELSE "invalid"

Recipient(address, percentAllocation) ==
  [address |-> address, percentAllocation |-> percentAllocation]

\* splitsConfig without the isSameAddress branch: always three recipients
splitsConfigThreeWay(casterAddress, minterAddress) ==
  <<Recipient(casterAddress, CASTER_SHARE),
    Recipient(minterAddress, MINTER_SHARE),
    Recipient(EDITMINT_WALLET, PLATFORM_SHARE)>>

\* splitsConfig.recipients for two normalized addresses
splitsConfig(casterAddress, minterAddress) ==
  IF casterAddress = minterAddress
  THEN <<Recipient(casterAddress, CASTER_SHARE + MINTER_SHARE),
         Recipient(EDITMINT_WALLET, PLATFORM_SHARE)>>
  ELSE <<Recipient(casterAddress, CASTER_SHARE),
         Recipient(minterAddress, MINTER_SHARE),
         Recipient(EDITMINT_WALLET, PLATFORM_SHARE)>>

\* predicted.splitAddress: the deterministic address of an immutable split,
\* a function of its configuration alone
splitAddress(config) == <<"split", config>>

\* predicted.splitExists always false
splitNeverExists(config) == FALSE

\* predicted.splitExists: a split with this configuration is deployed
splitExists(config) == config \in splits

SplitSlots == 1..MaxSplitCalls

FreeSplitCall ==
  [pc |-> "free", casterWallet |-> "", minterWallet |-> "", config |-> <<>>,
   existed |-> FALSE, sent |-> FALSE,
   response |-> [status |-> 0, success |-> FALSE, address |-> <<>>,
                 transactionHash |-> "undefined"]]

\* the 201 response with the split address
SplitCreated(config, transactionHash) ==
  [status |-> 201, success |-> TRUE, address |-> splitAddress(config),
   transactionHash |-> transactionHash]

\* the catch block: the 500 response
SplitFailed ==
  [status |-> 500, success |-> FALSE, address |-> <<>>,
   transactionHash |-> "undefined"]

\* POST /api/createSplit up to await predictImmutableSplitAddress: the two
\* wallets are required and validated, the configuration is built
createSplitReceive(i) ==
  \E casterWallet \in RawWallets, minterWallet \in RawWallets :
    /\ splitCalls[i].pc = "free"
    /\ \A j \in SplitSlots : j < i => splitCalls[j].pc # "free"
    /\ LET casterAddress == validateAndConvertAddress(casterWallet)
           minterAddress == validateAndConvertAddress(minterWallet)
           call == [FreeSplitCall EXCEPT !.casterWallet = casterWallet,
                                         !.minterWallet = minterWallet]
       IN IF \/ casterWallet = ""
             \/ minterWallet = ""
             \/ casterAddress = "invalid"
             \/ minterAddress = "invalid"
          THEN splitCalls' = [splitCalls EXCEPT ![i] =
                 [call EXCEPT !.pc = "done", !.response = SplitFailed]]
          ELSE splitCalls' = [splitCalls EXCEPT ![i] =
                 [call EXCEPT !.pc = "predictImmutableSplitAddress",
                              !.config = splitsConfig(casterAddress, minterAddress)]]
    /\ UNCHANGED <<stores, web, flags, life, loop, history, clock, faults, health, library,
                   splits, deployTxs>>

\* await predictImmutableSplitAddress returns: an existing split is reused,
\* else the handler goes on to await callData.createSplit
createSplitPredict(i) ==
  /\ splitCalls[i].pc = "predictImmutableSplitAddress"
  /\ IF splitExists(splitCalls[i].config)
     THEN splitCalls' = [splitCalls EXCEPT ![i] =
            [@ EXCEPT !.pc = "done",
                      !.existed = splitCalls[i].config \in splits,
                      !.response = SplitCreated(splitCalls[i].config, "undefined")]]
     ELSE splitCalls' = [splitCalls EXCEPT ![i] =
            [@ EXCEPT !.pc = "callData.createSplit",
                      !.existed = splitCalls[i].config \in splits]]
  /\ UNCHANGED <<stores, web, flags, life, loop, history, clock, faults, health, library,
                 splits, deployTxs>>

\* await callData.createSplit returns; walletClient.sendTransaction is called
createSplitCallData(i) ==
  /\ splitCalls[i].pc = "callData.createSplit"
  /\ splitCalls' = [splitCalls EXCEPT ![i] = [@ EXCEPT !.pc = "sendTransaction"]]
  /\ UNCHANGED <<stores, web, flags, life, loop, history, clock, faults, health, library,
                 splits, deployTxs>>

\* await sendTransaction returns the hash: the deployment transaction is out
createSplitSend(i) ==
  /\ splitCalls[i].pc = "sendTransaction"
  /\ deployTxs' = Append(deployTxs, splitCalls[i].config)
  /\ splitCalls' = [splitCalls EXCEPT ![i] =
       [@ EXCEPT !.pc = "waitForTransactionReceipt", !.sent = TRUE]]
  /\ UNCHANGED <<stores, web, flags, life, loop, history, clock, faults, health, library,
                 splits>>

\* sendTransaction rejects because the split was deployed in the meantime
\* (the gas estimation of the deployment reverts): the catch block
createSplitSendReverts(i) ==
  /\ splitCalls[i].pc = "sendTransaction"
  /\ splitCalls[i].config \in splits
  /\ splitCalls' = [splitCalls EXCEPT ![i] =
       [@ EXCEPT !.pc = "done", !.response = SplitFailed]]
  /\ UNCHANGED <<stores, web, flags, life, loop, history, clock, faults, health, library,
                 splits, deployTxs>>

\* await waitForTransactionReceipt returns: the transaction is mined (the
\* split is deployed, by this transaction or by an earlier one), 201
createSplitReceipt(i) ==
  /\ splitCalls[i].pc = "waitForTransactionReceipt"
  /\ splits' = splits \cup {splitCalls[i].config}
  /\ splitCalls' = [splitCalls EXCEPT ![i] =
       [@ EXCEPT !.pc = "done", !.response = SplitCreated(splitCalls[i].config, "hash")]]
  /\ UNCHANGED <<stores, web, flags, life, loop, history, clock, faults, health, library,
                 deployTxs>>

\* one of the awaited calls rejects (RPC or API failure): the catch block
createSplitThrow(i) ==
  /\ splitCalls[i].pc \in {"predictImmutableSplitAddress", "callData.createSplit",
                            "sendTransaction", "waitForTransactionReceipt"}
  /\ splitCalls' = [splitCalls EXCEPT ![i] =
       [@ EXCEPT !.pc = "done", !.response = SplitFailed]]
  /\ Fault
  /\ UNCHANGED <<stores, web, flags, life, loop, history, clock, health, library,
                 splits, deployTxs>>

\* ------------------------------------------- verifyWebhookSignature calls
\* the strings a call of verifyWebhookSignature is given
SignatureTexts == UNION {[1..n -> Range(HexDigits)] : n \in 0..(DigestLen + 1)}

VerifyHeaders(texts) == {NoHeader} \cup {Header(t) : t \in texts}

NoVerifyCall ==
  [pc |-> "idle", payload |-> <<>>, signature |-> NoHeader, timestamp |-> NoHeader,
   secret |-> "k1", result |-> Returns(FALSE)]

\* the function is entered with its four arguments
verifyWebhookSignatureCall ==
  /\ verifyCall.pc = "idle"
  /\ \E payload \in {<<"p">>, <<"q">>}, signature \in VerifyHeaders(SignatureTexts),
        timestamp \in VerifyHeaders({<<>>, <<"1">>, <<"2">>}), secret \in {"k1", "k2"} :
       verifyCall' = [pc |-> "called", payload |-> payload, signature |-> signature,
                      timestamp |-> timestamp, secret |-> secret,
                      result |-> Returns(FALSE)]
  /\ UNCHANGED <<stores, web, flags, life, loop, history, clock, faults, health,
                 splitting, connection, callers>>

\* the body of verifyWebhookSignature: it returns or throws
verifyWebhookSignatureRun ==
  /\ verifyCall.pc = "called"
  /\ verifyCall' =
       [verifyCall EXCEPT
          !.pc = "done",
          !.result = verifyWebhookSignature(verifyCall.payload, verifyCall.signature,
                                            verifyCall.timestamp, verifyCall.secret)]
  /\ UNCHANGED <<stores, web, flags, life, loop, history, clock, faults, health,
                 splitting, connection, callers>>

\* ------------------------------------------------------- getRedisClient
\* callers of getRedisClient that can be interleaved
MaxCallers == 3

Callers == 1..MaxCallers

\* RedisConnection before the first call: no client; isOpen and isReady are
\* the client's own flags (false while there is no client)
NoConnection ==
  [client |-> "null", created |-> 0, connecting |-> FALSE, isOpen |-> FALSE,
   isReady |-> FALSE]

IdleCaller == [pc |-> "idle", gotReady |-> FALSE]

\* getClient up to its first await or its return: the client is created when
\* there is none; connect is started when the client is not open and no
\* connect is in progress, else this.client is returned as it is. Whether
\* the client reports isOpen from the start of connect or only from its end
\* is the client library's matter: both are allowed.
getClient(c) ==
  /\ callers[c].pc = "idle"
  /\ LET made == IF connection.client = "null"
                 THEN [connection EXCEPT !.client = "client", !.created = @ + 1]
                 ELSE connection
     IN IF ~made.isOpen /\ ~made.connecting
        THEN /\ \E open \in BOOLEAN :
                  connection' = [made EXCEPT !.connecting = TRUE, !.isOpen = open]
             /\ callers' = [callers EXCEPT ![c] = [@ EXCEPT !.pc = "connect"]]
        ELSE /\ connection' = made
             /\ callers' = [callers EXCEPT ![c] =
                    [pc |-> "returned", gotReady |-> made.isReady]]
  /\ UNCHANGED <<stores, web, flags, life, loop, history, clock, faults, health,
                 splitting, verifyCall>>

\* await this.client.connect() returns: finally, return this.client
getClientConnected(c) ==
  /\ callers[c].pc = "connect"
  /\ connection' = [connection EXCEPT !.connecting = FALSE, !.isOpen = TRUE,
                                      !.isReady = TRUE]
  /\ callers' = [callers EXCEPT ![c] = [pc |-> "returned", gotReady |-> TRUE]]
  /\ UNCHANGED <<stores, web, flags, life, loop, history, clock, faults, health,
                 splitting, verifyCall>>

\* await this.client.connect() rejects: catch rethrows, finally
getClientConnectError(c) ==
  /\ callers[c].pc = "connect"
  /\ connection' = [connection EXCEPT !.connecting = FALSE, !.isOpen = FALSE,
                                      !.isReady = FALSE]
  /\ callers' = [callers EXCEPT ![c] = [pc |-> "threw", gotReady |-> FALSE]]
  /\ UNCHANGED <<stores, web, flags, life, loop, history, clock, faults, health,
                 splitting, verifyCall>>

\* the caller is done with the client (or with the error) and may call again
callerDone(c) ==
  /\ callers[c].pc \in {"returned", "threw"}
  /\ callers' = [callers EXCEPT ![c] = IdleCaller]
  /\ UNCHANGED <<stores, web, flags, life, loop, history, clock, faults, health,
                 splitting, verifyCall, connection>>

\* redis.quit(): a caller holding an open client closes it
redisQuit(c) ==
  /\ callers[c].pc = "returned"
  /\ connection.isOpen /\ ~connection.connecting
  /\ connection' = [connection EXCEPT !.isOpen = FALSE, !.isReady = FALSE]
  /\ callers' = [callers EXCEPT ![c] = IdleCaller]
  /\ UNCHANGED <<stores, web, flags, life, loop, history, clock, faults, health,
                 splitting, verifyCall>>

\* ------------------------------------------------------------ specification
Init ==
  /\ mint_queue = <<>>
  /\ failed_mint_queue = <<>>
  /\ processed_casts = {}
  /\ minted_casts = {}
  /\ tokens = {}
  /\ reqs = {}
  /\ nextCast = 1
  /\ signerUuid = "unobserved"
  /\ response = NoResponse
  /\ observed = FALSE
  /\ proc = "loading"
  /\ exitCode = -1
  /\ launcher = "unobserved"
  /\ unhandled = "unobserved"
  /\ isProcessing = FALSE
  /\ isShuttingDown = FALSE
  /\ lastProcessedTime = 0
  /\ queueHealth = [status |-> "starting", lastProcessed |-> 0,
                    currentQueueSize |-> 0, failedMintsCount |-> 0,
                    errors |-> <<>>]
  /\ inv = [i \in Slots |-> FreeSlot]
  /\ timers = 0
  /\ shutWaiting = 0
  /\ shutQuitting = 0
  /\ redisOpen = FALSE
  /\ signals = 0
  /\ clock = 1
  /\ faults = 0
  /\ enqueuedLog = <<>>
  /\ dequeuedLog = <<>>
  /\ thrown = {}
  /\ rejectedAppends = {}
  /\ drained = {}
  /\ started = FALSE
  /\ health = NoHealthCall
  /\ splits = {}
  /\ deployTxs = <<>>
  /\ splitCalls = [i \in SplitSlots |-> FreeSplitCall]
  /\ verifyCall = NoVerifyCall
  /\ connection = NoConnection
  /\ callers = [c \in Callers |-> IdleCaller]

Next ==
  \/ WebhookReceive
  \/ WebhookCheckProcessed
  \/ WebhookCheckMinted
  \/ WebhookEnqueue
  \/ WebhookStoreError
  \/ Load
  \/ ConnectOk
  \/ ConnectFail
  \/ TimerFire
  \/ \E i \in Slots : RedisRpop(i)
  \/ \E i \in Slots : DequeueThrow(i)
  \/ \E i \in Slots : DequeueResume(i)
  \/ \E i \in Slots : FetchOk(i)
  \/ \E i \in Slots : FetchRejectedResponse(i)
  \/ \E i \in Slots : FetchTransportError(i)
  \/ \E i \in Slots : FetchAbort(i)
  \/ \E i \in Slots : StoreOk(i)
  \/ \E i \in Slots : StoreThrow(i)
  \/ \E i \in Slots : MarkOk(i)
  \/ \E i \in Slots : MarkThrow(i)
  \/ \E i \in Slots : PublishOk(i)
  \/ \E i \in Slots : PublishThrow(i)
  \/ \E i \in Slots : AddToFailedOk(i)
  \/ \E i \in Slots : AddToFailedThrow(i)
  \/ Signal
  \/ ShutdownPoll
  \/ ShutdownQuit

Spec == Init /\ [][Next]_vars

\* the states of the stores and of the worker's health fields in which
\* getHealthStatus is called
HealthItems ==
  {[castHash |-> 1, parentHash |-> "t1", hasEth |-> TRUE],
   [castHash |-> 2, parentHash |-> "t2", hasEth |-> FALSE]}

HealthLists(S) ==
  {<<>>} \cup {<<a>> : a \in S} \cup {<<a, b>> : a, b \in S}

HealthInit ==
  /\ mint_queue \in {l \in HealthLists(HealthItems) : Len(l) = 2 => l[1] # l[2]}
  /\ failed_mint_queue \in
       HealthLists({FailedMint(it, ErrorMessage("validate"), 1) : it \in HealthItems})
  /\ processed_casts = {}
  /\ minted_casts = {}
  /\ tokens = {}
  /\ reqs = {}
  /\ nextCast = MaxCasts + 1
  /\ signerUuid = "unobserved"
  /\ response = NoResponse
  /\ observed = FALSE
  /\ proc = "running"
  /\ exitCode = -1
  /\ launcher = "unobserved"
  /\ unhandled = "unobserved"
  /\ isProcessing = FALSE
  /\ isShuttingDown = FALSE
  /\ lastProcessedTime \in 0..1
  /\ queueHealth \in [status : {"idle", "success", "error"},
                       lastProcessed : {0},
                       currentQueueSize : {0},
                       failedMintsCount : 0..2,
                       errors : {<<>>}]
  /\ inv = [i \in Slots |-> FreeSlot]
  /\ timers = 1
  /\ shutWaiting = 0
  /\ shutQuitting = 0
  /\ redisOpen = TRUE
  /\ signals = 0
  /\ clock = 2
  /\ faults = 0
  /\ enqueuedLog = <<>>
  /\ dequeuedLog = <<>>
  /\ thrown = {}
  /\ rejectedAppends = {}
  /\ drained = {}
  /\ started = TRUE
  /\ health = NoHealthCall
  /\ splits = {}
  /\ deployTxs = <<>>
  /\ splitCalls = [i \in SplitSlots |-> FreeSplitCall]
  /\ verifyCall = NoVerifyCall
  /\ connection = NoConnection
  /\ callers = [c \in Callers |-> IdleCaller]

HealthNext ==
  \/ getHealthStatusCall
  \/ HealthPeekOk
  \/ HealthFailedMintsOk
  \/ HealthReadThrow

HealthSpec == HealthInit /\ [][HealthNext]_vars

\* the web service alone, its responses observed, started with any history
\* table and processed set that earlier mints can have left
WebInit ==
  /\ \E minted \in SUBSET Targets :
       /\ minted_casts = {[cast_hash |-> t, mint_hash |-> 0] : t \in minted}
       /\ processed_casts \in SUBSET minted
  /\ mint_queue = <<>>
  /\ failed_mint_queue = <<>>
  /\ tokens = {}
  /\ reqs = {}
  /\ nextCast = 1
  /\ signerUuid = "unobserved"
  /\ response = NoResponse
  /\ observed = TRUE
  /\ proc = "loading"
  /\ exitCode = -1
  /\ launcher = "unobserved"
  /\ unhandled = "unobserved"
  /\ isProcessing = FALSE
  /\ isShuttingDown = FALSE
  /\ lastProcessedTime = 0
  /\ queueHealth = NoHealthCall.value
  /\ inv = [i \in Slots |-> FreeSlot]
  /\ timers = 0
  /\ shutWaiting = 0
  /\ shutQuitting = 0
  /\ redisOpen = FALSE
  /\ signals = 0
  /\ clock = 1
  /\ faults = 0
  /\ enqueuedLog = <<>>
  /\ dequeuedLog = <<>>
  /\ thrown = {}
  /\ rejectedAppends = {}
  /\ drained = {}
  /\ started = FALSE
  /\ health = NoHealthCall
  /\ splits = {}
  /\ deployTxs = <<>>
  /\ splitCalls = [i \in SplitSlots |-> FreeSplitCall]
  /\ verifyCall = NoVerifyCall
  /\ connection = NoConnection
  /\ callers = [c \in Callers |-> IdleCaller]

WebNext ==
  \/ WebhookReceive
  \/ WebhookCheckProcessed
  \/ WebhookCheckMinted
  \/ WebhookEnqueue
  \/ WebhookStoreError

WebSpec == WebInit /\ [][WebNext]_vars

\* /api/createSplit alone, on a chain where no split is deployed yet
SplitNext ==
  \/ \E i \in SplitSlots : createSplitReceive(i)
  \/ \E i \in SplitSlots : createSplitPredict(i)
  \/ \E i \in SplitSlots : createSplitCallData(i)
  \/ \E i \in SplitSlots : createSplitSend(i)
  \/ \E i \in SplitSlots : createSplitSendReverts(i)
  \/ \E i \in SplitSlots : createSplitReceipt(i)
  \/ \E i \in SplitSlots : createSplitThrow(i)

SplitSpec == Init /\ [][SplitNext]_vars

\* verifyWebhookSignature alone, called once with any arguments
VerifyNext ==
  \/ verifyWebhookSignatureCall
  \/ verifyWebhookSignatureRun

VerifySpec == Init /\ [][VerifyNext]_vars

\* getRedisClient alone, its callers interleaved at the awaits
ConnNext ==
  \/ \E c \in Callers : getClient(c)
  \/ \E c \in Callers : getClientConnected(c)
  \/ \E c \in Callers : getClientConnectError(c)
  \/ \E c \in Callers : callerDone(c)
  \/ \E c \in Callers : redisQuit(c)

ConnSpec == Init /\ [][ConnNext]_vars

\* ------------------------------------------------------------- properties
\* the entries of the failed list that carry this item
FailedEntries(it) == {f \in Range(failed_mint_queue) : f.data = it}

\* the invocation that dequeued the item has left its finally block
Finished(it) == \A i \in Slots : inv[i].data # it

\* the item is held by a running invocation: popped by Redis or mid-pipeline
InFlight(it) ==
  /\ proc = "running"
  /\ \E i \in Slots : inv[i].data = it /\ inv[i].pc \in PipelinePcs \cup {"dequeued"}

\* C1: for every target, at most one pipeline run creates a token for it,
\* also when two mint commands for the target are delivered before either is
\* processed.
C1_AtMostOneMintPerTarget ==
  \A t \in Targets : Cardinality({k \in tokens : k.parentHash = t}) <= 1

\* C2: no work is lost: every item pushed onto the pending list is still
\* pending, is the item of the pipeline in flight, is on the failed list, or
\* has a MintRecord stored for its target, also after the worker has exited.
C2_NoWorkLost ==
  \A it \in Range(enqueuedLog) :
    \/ it \in Range(mint_queue)
    \/ InFlight(it)
    \/ FailedEntries(it) # {}
    \/ getMintingDetails(it.parentHash) # {}

\* C3: at most one pipeline execution is in flight at any time; isProcessing
\* is set exactly while one is, and no dequeue is outstanding while it is set
\* (an invocation that finds isProcessing true does not dequeue).
C3_SinglePipeline ==
  /\ Cardinality({i \in Slots : inv[i].pc \in PipelinePcs}) <= 1
  /\ isProcessing <=> (\E i \in Slots : inv[i].pc \in PipelinePcs)
  /\ \A i \in Slots : inv[i].pc \in DequeuePcs => ~isProcessing

\* a pipeline is in flight in the running worker while another item is pending
C3_Witness ==
  /\ proc = "running"
  /\ mint_queue # <<>>
  /\ \E i \in Slots : inv[i].pc \in PipelinePcs

\* C4: the pending list is first-in-first-out: the items dequeueCast has
\* returned are, in order, the first items enqueueCast put on the list, the
\* rest are pending in enqueue order, and no item is returned twice.
C4_Fifo ==
  /\ enqueuedLog = dequeuedLog \o Reverse(mint_queue)
  /\ \A j, k \in 1..Len(dequeuedLog) : dequeuedLog[j] = dequeuedLog[k] => j = k

\* two items have been enqueued and both have been returned by dequeueCast
C4_Witness == Len(enqueuedLog) >= 2 /\ Len(dequeuedLog) >= 2

\* C5: a target is in the processed set only if a MintRecord for it has been
\* stored, in every state, mid-pipeline and after a step failure included.
C5_ProcessedOnlyAfterRecord ==
  \A t \in processed_casts : getMintingDetails(t) # {}

\* a target has been marked processed and a pipeline step has failed
C5_Witness == processed_casts # {} /\ thrown # {}

\* C6: with no pipeline in flight, isCastProcessed(target) is true if and
\* only if a MintRecord exists for the target.
C6_ProcessedIffRecord ==
  (\A i \in Slots : inv[i].pc \notin PipelinePcs)
    => \A t \in Targets : isCastProcessed(t) <=> getMintingDetails(t) # {}

\* C7: whenever the pipeline for a dequeued item throws, whatever the thrown
\* value, the item is appended to the failed list with the failure reason and
\* a failedAt timestamp, is not pushed back onto the pending list, and the
\* error is appended to the health state's error list (stated for the runs
\* whose addToFailedQueue call, if made, did not itself fail).
C7_ThrownItemsAreFailed ==
  \A r \in thrown :
    (Finished(r.data) /\ r.data \notin rejectedAppends)
      => /\ \E f \in FailedEntries(r.data) : f.error = r.message /\ f.failedAt > 0
         /\ r.data \notin Range(mint_queue)
         /\ \E k \in 1..Len(queueHealth.errors) :
              queueHealth.errors[k] \in {r.message, "[object Object]"}

\* C8: a failure of publishCast alone does not fail the pipeline: the item
\* is not appended to the failed list and the failure is not recorded as an
\* error of the run.
C8_PublishFailureIsNotAFailure ==
  \A r \in thrown :
    r.message = ErrorMessage("publishCast")
      => /\ FailedEntries(r.data) = {}
         /\ \A k \in 1..Len(queueHealth.errors) : queueHealth.errors[k] # r.message

\* C9: when a termination signal arrives while a pipeline is in flight, the
\* worker neither closes the Redis connection nor exits until that pipeline
\* has finished.
C9_ShutdownDrains ==
  \A it \in drained : (proc = "exited" \/ ~redisOpen) => Finished(it)

\* C10: after a successful startup the loop keeps polling until shutdown is
\* requested: the process is alive and an invocation of processQueueItem is
\* running or scheduled, whatever the outcome of the earlier invocations.
C10_LoopKeepsPolling ==
  (started /\ ~isShuttingDown)
    => /\ proc = "running"
       /\ timers > 0 \/ \E i \in Slots : inv[i].pc # "free"

\* C11: a delivery whose signature header is missing or is not the HMAC of
\* the body received is rejected: no item is pushed onto the pending list for
\* a request that fails verifyWebhookSignature.
C11_UnverifiedNeverEnqueued ==
  [][\A r \in reqs :
       (r.pc = "enqueueCast" /\ r \notin reqs' /\ Len(mint_queue') > Len(mint_queue))
         => verifyWebhookSignature(<<"p">>, SignatureHeader(r.signature),
                                   Header(<<"1">>), "k1").value]_vars

\* C12: an item is pushed onto the pending list only by a request that passed
\* the payload checks and reached enqueueCast, and only when, for its target,
\* isCastProcessed is false and no MintRecord exists; nothing else adds to
\* the pending list.
C12_EnqueueOnlyWhenEligible ==
  [][Len(mint_queue') > Len(mint_queue)
       => LET it == mint_queue'[1]
          IN /\ \E r \in reqs : r.data = it /\ r.pc = "enqueueCast"
             /\ ~isCastProcessed(it.parentHash)
             /\ getMintingDetails(it.parentHash) = {}]_vars

\* the pcs at which an invocation awaits a call to an external service inside
\* the try block
ExternalCallPcs == FetchSteps \cup {"storeMintedNFT", "markCastAsProcessed", "publishCast"}

C15_HealthTransitions ==
  [][/\ (\E i \in Slots : inv[i].pc = "dequeued" /\ inv'[i].pc = "fetchParentCast")
          => queueHealth'.status = "processing"
     /\ lastProcessedTime' # lastProcessedTime
          => /\ queueHealth'.status = "idle"
             /\ queueHealth'.lastProcessed = lastProcessedTime'
     /\ thrown' # thrown
          => queueHealth'.status = "error"]_vars

\* C16: getHealthStatus never throws: a call that awaits a read ends by
\* returning, and when the read of the pending list or of the failed list
\* fails it returns the in-memory health state as it was, with the read
\* error attached, and leaves the in-memory state (status and lastProcessed
\* included) as it was.
C16_HealthReadFailureKeepsState ==
  [][(health.pc \in {"peekQueue", "getFailedMints"} /\ health'.pc = "idle")
       => /\ health'.returned
          /\ health'.error # ""
               => /\ health'.value = queueHealth
                  /\ queueHealth' = queueHealth
                  /\ lastProcessedTime' = lastProcessedTime]_vars

\* a read failed while the in-memory status was error and the failed count
\* was not zero, and getHealthStatus returned that state with the read error
C16_Witness ==
  /\ health.returned
  /\ health.error # ""
  /\ health.value.status = "error"
  /\ health.value.failedMintsCount > 0

\* C17: with both reads succeeding, getHealthStatus reports currentQueueSize
\* equal to the number of items on the pending list and failedMintsCount
\* equal to the number of entries on the failed list.
C17_HealthCountsMatch ==
  (health.returned /\ health.error = "")
    => /\ health.value.currentQueueSize = Len(mint_queue)
       /\ health.value.failedMintsCount = Len(failed_mint_queue)

\* C18: every response of the webhook endpoint carries a boolean success
\* field, and every failure response (an HTTP status of 400 or more, or
\* success false) also carries an error string and a code.
C18_StructuredResponses ==
  response # NoResponse
    => /\ "success" \in DOMAIN response.body
       /\ response.body.success \in BOOLEAN
       /\ (response.status >= 400 \/ ~response.body.success)
            => {"error", "code"} \subseteq DOMAIN response.body

\* the requests to /api/createSplit whose two wallets were valid
ValidSplitCalls == {i \in SplitSlots : splitCalls[i].config # <<>>}

\* C19: for every request with two valid wallets the allocations of the split
\* configuration sum to 100: three recipients with 50 (owner), 5 (requester)
\* and 45 (platform) when the two addresses differ, two recipients with 55
\* (owner) and 45 (platform) when they are the same address up to case.
C19_SplitShares ==
  \A i \in ValidSplitCalls :
    LET config == splitCalls[i].config
        owner == validateAndConvertAddress(splitCalls[i].casterWallet)
        requester == validateAndConvertAddress(splitCalls[i].minterWallet)
    IN IF owner = requester
       THEN /\ Len(config) = 2
            /\ config[1] = Recipient(owner, 55)
            /\ config[2] = Recipient(EDITMINT_WALLET, 45)
            /\ config[1].percentAllocation + config[2].percentAllocation = 100
       ELSE /\ Len(config) = 3
            /\ config[1] = Recipient(owner, 50)
            /\ config[2] = Recipient(requester, 5)
            /\ config[3] = Recipient(EDITMINT_WALLET, 45)
            /\ config[1].percentAllocation + config[2].percentAllocation
                 + config[3].percentAllocation = 100

\* a request whose two wallets are the same address written in different
\* case got its split, and so did a request with two different addresses
C19_Witness ==
  /\ \E i \in ValidSplitCalls :
       /\ splitCalls[i].casterWallet # splitCalls[i].minterWallet
       /\ Len(splitCalls[i].config) = 2
       /\ splitCalls[i].response.success
  /\ \E i \in ValidSplitCalls :
       /\ Len(splitCalls[i].config) = 3
       /\ splitCalls[i].response.success

\* C20: the split step is idempotent: two requests with the same two
\* addresses that are answered with a split address get the same address, and
\* a request that finds the split already deployed sends no deployment
\* transaction.
C20_SplitIdempotent ==
  /\ \A i, j \in ValidSplitCalls :
       (/\ validateAndConvertAddress(splitCalls[i].casterWallet)
             = validateAndConvertAddress(splitCalls[j].casterWallet)
        /\ validateAndConvertAddress(splitCalls[i].minterWallet)
             = validateAndConvertAddress(splitCalls[j].minterWallet)
        /\ splitCalls[i].response.success
        /\ splitCalls[j].response.success)
         => splitCalls[i].response.address = splitCalls[j].response.address
  /\ \A i \in ValidSplitCalls :
       splitCalls[i].existed
         => /\ ~splitCalls[i].sent
            /\ splitCalls[i].pc = "done"
            /\ splitCalls[i].response.transactionHash = "undefined"

\* the same two addresses were sent twice: the first request deployed the
\* split, the second found it deployed and returned its address
C20_Witness ==
  /\ Len(deployTxs) = 1
  /\ \E i, j \in ValidSplitCalls :
       /\ i # j
       /\ splitCalls[i].config = splitCalls[j].config
       /\ splitCalls[i].sent /\ splitCalls[i].response.success
       /\ splitCalls[j].existed /\ splitCalls[j].response.success

\* the worker failed at startup: a required environment variable was missing
\* or the first Redis connection was refused
StartupFailed ==
  \E k \in 1..Len(queueHealth.errors) :
    queueHealth.errors[k] \in {"environment variable is required", "connect failed"}

\* C21: a startup failure is fatal before any work is taken: when a required
\* configuration value is missing or the initial Redis connection fails, the
\* worker has exited with a non-zero code, the loop was never started and no
\* item has been removed from the pending list, then or later.
C21_StartupFailureIsFatal ==
  StartupFailed
    => /\ proc = "exited"
       /\ exitCode > 0
       /\ ~started
       /\ dequeuedLog = <<>>
       /\ mint_queue = Reverse(enqueuedLog)
       /\ \A i \in Slots : inv[i].pc = "free"

\* the worker failed at startup and an item is on the pending list
C21_Witness == StartupFailed /\ mint_queue # <<>>

\* C22: a call made through fetchWithRetry that is aborted by its timeout is
\* attempted again: the abort ends the pipeline of the item only once the
\* retries of that call are used up.
C22_TimeoutIsRetried ==
  [][\A i \in Slots :
       (/\ inv[i].pc \in FetchSteps
        /\ inv'[i].pc = "addToFailedQueue"
        /\ inv'[i].error = "This operation was aborted")
         => inv[i].retries = 0]_vars

\* C23: fetchWithRetry terminates: a call is attempted at most
\* 1 + MAX_RETRIES = 4 times; a transport error aborts the pipeline only on
\* the fourth attempt, and the item is then placed on the failed list; a
\* response with a non-success status ends the call on the attempt that
\* received it.
C23_RetriesAreBounded ==
  [][\A i \in Slots :
       /\ inv[i].pc \in FetchSteps
            => /\ inv[i].retries \in 0..3
               /\ inv'[i].retries \in 0..3
       /\ (inv[i].pc \in FetchSteps /\ inv'[i].pc = inv[i].pc /\ inv'[i] # inv[i])
            => inv'[i].retries = inv[i].retries - 1
       /\ (inv[i].pc \in FetchSteps /\ inv'[i].error = "fetch failed")
            => /\ inv[i].retries = 0
               /\ inv'[i].pc = "addToFailedQueue"
       /\ (inv[i].pc = "addToFailedQueue" /\ inv[i].error = "fetch failed"
              /\ failed_mint_queue' # failed_mint_queue)
            => failed_mint_queue'[1] =
                 FailedMint(inv[i].data, "fetch failed", inv[i].failedAt)
       /\ (inv[i].pc \in FetchSteps /\ inv'[i].error = ErrorMessage(inv[i].pc))
            => inv'[i].pc = "addToFailedQueue"]_vars

\* a call failed with a transport error on all four attempts and its item
\* is on the failed list
C23_Witness ==
  \E f \in Range(failed_mint_queue) : f.error = "fetch failed"

\* the steps of the pipeline after the validation, in the order specified
StepOrder ==
  <<"fetchParentCast", "fetchUser", "createImage", "uploadMetadata",
    "createSplit", "createToken", "storeMintedNFT", "markCastAsProcessed",
    "publishCast">>

\* C24: the pipeline steps of an item run in the fixed order validate, fetch
\* target, fetch owner, create image, upload metadata, create split, create
\* token, store MintRecord, mark processed, publish reply: an invocation
\* moves from a step only to the step after it, or, when the step fails, to
\* the failure handling and out, never to a later step; tokens, MintRecords
\* and processed marks are written at their own step only.
C24_FixedStepOrder ==
  [][/\ \A i \in Slots :
          inv'[i].pc # inv[i].pc =>
            /\ inv[i].pc = "dequeued"
                 => inv'[i].pc \in {StepOrder[1], "addToFailedQueue", "free"}
            /\ \A k \in 1..Len(StepOrder) :
                 inv[i].pc = StepOrder[k]
                   => \/ k < Len(StepOrder) /\ inv'[i].pc = StepOrder[k + 1]
                      \/ inv'[i].pc \in {"addToFailedQueue", "free"}
            /\ inv[i].pc = "addToFailedQueue" => inv'[i].pc = "free"
     /\ tokens' # tokens
          => \E i \in Slots : inv[i].pc = "createToken" /\ inv'[i].pc = "storeMintedNFT"
     /\ minted_casts' # minted_casts
          => \E i \in Slots : inv[i].pc = "storeMintedNFT"
                               /\ inv'[i].pc = "markCastAsProcessed"
     /\ processed_casts' # processed_casts
          => \E i \in Slots : inv[i].pc = "markCastAsProcessed"
                               /\ inv'[i].pc = "publishCast"]_vars

\* one item has gone through every step and another has failed at a step
C24_Witness ==
  /\ lastProcessedTime > 0
  /\ \E r \in thrown : r.message # ErrorMessage("validate") /\ Finished(r.data)

\* C25: peekQueue leaves the pending list unchanged and returns the item the
\* next dequeueCast call will return; it returns null exactly when the
\* pending list is empty.
C25_PeekIsNextDequeued ==
  [][(health.pc = "peekQueue" /\ health'.pc = "getFailedMints")
       => /\ mint_queue' = mint_queue
          /\ health'.nextItem = rPopValue(mint_queue)
          /\ (health'.nextItem = NoItem) <=> (mint_queue = <<>>)]_vars

\* C26: verifyWebhookSignature never throws; it returns true exactly when the
\* signature equals the hex HMAC-SHA256 of timestamp + '.' + payload under
\* the secret, and false for every missing or non-matching signature, a
\* signature of another length than the digest included.
C26_VerifyNeverThrows ==
  verifyCall.pc = "done"
    => /\ verifyCall.result.threw = ""
       /\ verifyCall.result.value
            <=> /\ verifyCall.signature.present
                /\ verifyCall.timestamp.present /\ verifyCall.timestamp.text # <<>>
                /\ verifyCall.signature.text =
                     hmacSha256Hex(verifyCall.secret,
                                   verifyCall.timestamp.text \o <<".">>
                                     \o verifyCall.payload)

\* C30: with callers of getRedisClient interleaved, one client object is
\* created at most, connect is never started while another connect is in
\* progress, and every client returned to a caller is already connected.
C30_OneConnectedClient ==
  /\ connection.created <= 1
  /\ Cardinality({c \in Callers : callers[c].pc = "connect"}) <= 1
  /\ \A c \in Callers : callers[c].pc = "returned" => callers[c].gotReady

\* C27: the health state's error list is bounded: there is a fixed maximum
\* length that queueHealth.errors never exceeds, however many pipeline runs
\* fail. With MaxCasts items that can fail, a fixed maximum shows as a list
\* that stays shorter than MaxCasts once MaxCasts is above that maximum; a
\* list that reaches MaxCasts for every MaxCasts has no maximum.
C27_ErrorsBounded ==
  Len(queueHealth.errors) < MaxCasts

\* C28: once a termination signal has set the health status to
\* shutting_down, the status never goes back to idle, processing, success or
\* error: a dequeue or pipeline in flight that completes during shutdown does
\* not overwrite it, and the only later value is shutdown.
C28_ShuttingDownIsKept ==
  [][queueHealth.status = "shutting_down"
       => queueHealth'.status \in {"shutting_down", "shutdown"}]_vars

\* C29: the worker has a single poll chain: at any time at most one
\* invocation of processQueueItem is running or scheduled by a timer, since
\* every invocation schedules at most one successor on each of its paths;
\* the number of scheduled polls never grows.
C29_SinglePollChain ==
  timers + Cardinality({i \in Slots : inv[i].pc # "free"}) <= 1

\* the chain has gone through a pipeline run and both kinds of dequeue, and
\* its next poll is scheduled
C29_Witness ==
  /\ proc = "running"
  /\ timers = 1
  /\ lastProcessedTime > 0
  /\ Len(dequeuedLog) >= 2

====
